---- MODULE Spec2Model ----
(***************************************************************************)
(* Model of litebo/utils/history_container.py: HistoryContainer,           *)
(* MOHistoryContainer and MultiStartHistoryContainer.                      *)
(*                                                                         *)
(* One object is constructed in Init (kind says of which class) and the    *)
(* actions are the calls a driving optimizer makes on it.  Objects are     *)
(* records whose fields carry the attribute names of the source.           *)
(*                                                                         *)
(* Performances are only ever compared (<, <=) by the code, so they are    *)
(* modelled by their place in the order: 1..MaxPerf are ordinary costs,    *)
(* MAXINT is the sentinel the containers start from (above every ordinary  *)
(* cost), MAXINT + 1 is a cost above the sentinel.                         *)
(***************************************************************************)
EXTENDS Integers, Sequences, FiniteSets

\* ---- bounds ----
NumConfigs == 3          \* distinct configurations the optimizer may submit
MaxPerf == 1             \* ordinary performances are 1..MaxPerf
MaxData == 3             \* insertions made over all restarts together
MaxRestarts == 2         \* restart() calls after construction

\* ---- values ----
MAXINT == MaxPerf + 1
NumObjsNone == 0         \* num_objs = None
RefPointNone == <<>>     \* ref_point = None
Unset == 0               \* attribute never assigned (self.current)

Configs == 1..NumConfigs
ObjCounts == {1, 2}      \* numbers of objectives (vector lengths) in use
PerfVals == (1..MaxPerf) \cup {MAXINT + 1}
Vectors == UNION {[1..n -> PerfVals] : n \in ObjCounts}
RefPoints == {[i \in 1..n |-> MAXINT] : n \in ObjCounts}

VARIABLES kind, hc, mo, ms, result, returned, file, fresh

vars == <<kind, hc, mo, ms, result, returned, file, fresh>>

\* ---- helpers on OrderedDict-as-sequence-of-pairs ----
InData(d, config) == \E i \in 1..Len(d) : d[i][1] = config

Keys(d) == {d[i][1] : i \in 1..Len(d)}

Items(d) == {d[i] : i \in 1..Len(d)}

RECURSIVE Pop(_, _)
Pop(d, config) ==
    IF d = <<>> THEN <<>>
    ELSE IF Head(d)[1] = config THEN Tail(d)
    ELSE <<Head(d)>> \o Pop(Tail(d), config)

\* ---- HistoryContainer ----
HistoryContainer_init ==
    [data |-> <<>>, config_counter |-> 0,
     incumbent_value |-> MAXINT, incumbents |-> <<>>]

HistoryContainer_add_NoClear(h, config, perf) ==
    IF InData(h.data, config) THEN h
    ELSE LET h1 == [h EXCEPT !.data = Append(@, <<config, perf>>),
                             !.config_counter = @ + 1]
         IN IF Len(h1.incumbents) > 0
            THEN IF perf <= h1.incumbent_value
                 THEN [h1 EXCEPT !.incumbents = Append(@, <<config, perf>>),
                                 !.incumbent_value = perf]
                 ELSE h1
            ELSE [h1 EXCEPT !.incumbent_value = perf,
                            !.incumbents = Append(@, <<config, perf>>)]

HistoryContainer_add_StaleValue(h, config, perf) ==
    IF InData(h.data, config) THEN h
    ELSE LET h1 == [h EXCEPT !.data = Append(@, <<config, perf>>),
                             !.config_counter = @ + 1]
         IN IF Len(h1.incumbents) > 0
            THEN LET inc == IF perf < h1.incumbent_value
                            THEN <<>> ELSE h1.incumbents
                 IN IF perf < h1.incumbent_value
                    THEN [h1 EXCEPT !.incumbents = Append(inc, <<config, perf>>)]
                    ELSE IF perf <= h1.incumbent_value
                    THEN [h1 EXCEPT !.incumbents = Append(inc, <<config, perf>>),
                                    !.incumbent_value = perf]
                    ELSE h1
            ELSE [h1 EXCEPT !.incumbent_value = perf,
                            !.incumbents = Append(@, <<config, perf>>)]

SetPerf(d, config, perf) ==
    [i \in 1..Len(d) |-> IF d[i][1] = config THEN <<config, perf>> ELSE d[i]]

HistoryContainer_add_Overwrite(h, config, perf) ==
    IF InData(h.data, config)
    THEN [h EXCEPT !.data = SetPerf(@, config, perf)]
    ELSE LET h1 == [h EXCEPT !.data = Append(@, <<config, perf>>),
                             !.config_counter = @ + 1]
         IN IF Len(h1.incumbents) > 0
            THEN LET inc == IF perf < h1.incumbent_value
                            THEN <<>> ELSE h1.incumbents
                 IN IF perf <= h1.incumbent_value
                    THEN [h1 EXCEPT !.incumbents = Append(inc, <<config, perf>>),
                                    !.incumbent_value = perf]
                    ELSE h1
            ELSE [h1 EXCEPT !.incumbent_value = perf,
                            !.incumbents = Append(@, <<config, perf>>)]

HistoryContainer_add(h, config, perf) ==
    IF InData(h.data, config) THEN h
    ELSE LET h1 == [h EXCEPT !.data = Append(@, <<config, perf>>),
                             !.config_counter = @ + 1]
         IN IF Len(h1.incumbents) > 0
            THEN LET inc == IF perf < h1.incumbent_value
                            THEN <<>> ELSE h1.incumbents
                 IN IF perf <= h1.incumbent_value
                    THEN [h1 EXCEPT !.incumbents = Append(inc, <<config, perf>>),
                                    !.incumbent_value = perf]
                    ELSE h1
            ELSE [h1 EXCEPT !.incumbent_value = perf,
                            !.incumbents = Append(@, <<config, perf>>)]

\* outcome of a call: "ok", "warning" (repeated configuration) or the
\* name of the exception that reached the caller
HistoryContainer_add_result(h, config) ==
    IF InData(h.data, config) THEN "warning" ELSE "ok"

\* ---- save_json / load_history_from_json ----
\* A file is missing, holds text that is no JSON, or holds a JSON object
\* that has or lacks the "data" list of [dictionary, value] pairs.
NoFile == [form |-> "missing", has_data |-> FALSE, data |-> <<>>]

Garbage == [form |-> "garbage", has_data |-> FALSE, data |-> <<>>]

JsonFile(has_data, data) ==
    [form |-> "json", has_data |-> has_data, data |-> data]

JsonNumber(x) == [t |-> "number", v |-> x]

JsonString == [t |-> "string", v |-> 0]

None == <<>>             \* a call that returned None (or raised)

Returned(value) == <<value>>

\* k.get_dictionary() and get_config_from_dict(k, cs)
get_dictionary(config) == [hyperparameter |-> config]

get_config_from_dict(k) == k.hyperparameter

\* float(v): the number itself, ValueError on text that is no number
float_ok(j) == j.t = "number"

float(j) == j.v

HistoryContainer_save_json(h) ==
    JsonFile(TRUE, [i \in 1..Len(h.data) |->
                       <<get_dictionary(h.data[i][1]),
                         JsonNumber(h.data[i][2])>>])

\* _history_data[config] = perf on an OrderedDict
DictSet(d, config, perf) ==
    IF InData(d, config)
    THEN [i \in 1..Len(d) |->
             IF d[i][1] = config THEN <<config, perf>> ELSE d[i]]
    ELSE Append(d, <<config, perf>>)

\* for k, v in all_data["data"]: the dictionary built, or the exception
RECURSIVE LoadLoop(_, _, _)
LoadLoop(data, k, _history_data) ==
    IF k > Len(data) THEN [result |-> "ok", returned |-> Returned(_history_data)]
    ELSE IF ~float_ok(data[k][2])
    THEN [result |-> "ValueError", returned |-> None]
    ELSE LoadLoop(data, k + 1,
                  DictSet(_history_data, get_config_from_dict(data[k][1]),
                          float(data[k][2])))

\* load_history_from_json: open and json.load are inside the try, the
\* subscript all_data["data"] and the loop are after it; self is never
\* assigned and add is never called
HistoryContainer_load_history_from_json(h, f) ==
    IF f.form \in {"missing", "garbage"}
    THEN [self |-> h, result |-> "warning", returned |-> None]
    ELSE IF ~f.has_data
    THEN [self |-> h, result |-> "KeyError", returned |-> None]
    ELSE LET out == LoadLoop(f.data, 1, <<>>)
         IN [self |-> h, result |-> out.result, returned |-> out.returned]

\* ---- MOHistoryContainer ----
MOHistoryContainer_init(ref_point) ==
    [data |-> <<>>, config_counter |-> 0, pareto |-> <<>>,
     num_objs |-> NumObjsNone, mo_incumbent_value |-> <<>>,
     mo_incumbents |-> <<>>, list_objs |-> <<>>,
     ref_point |-> ref_point, hv_data |-> <<>>]

Min2(a, b) == IF a <= b THEN a ELSE b

\* all(x <= y for x, y in zip(a, b))
AllLeq(a, b) == \A i \in 1..Min2(Len(a), Len(b)) : a[i] <= b[i]

\* first call: num_objs, [MAXINT] * num_objs, [list()] * num_objs.
\* list() is evaluated once: every slot of mo_incumbents refers to the
\* one list object list_objs[1].
MO_fix_num_objs_Always(m, perf) ==
    [m EXCEPT !.num_objs = Len(perf),
              !.mo_incumbent_value = [i \in 1..Len(perf) |-> MAXINT],
              !.mo_incumbents = [i \in 1..Len(perf) |-> 1],
              !.list_objs = << <<>> >>]

MO_fix_num_objs(m, perf) ==
    IF m.num_objs = NumObjsNone
    THEN [m EXCEPT !.num_objs = Len(perf),
                   !.mo_incumbent_value = [i \in 1..Len(perf) |-> MAXINT],
                   !.mo_incumbents = [i \in 1..Len(perf) |-> 1],
                   !.list_objs = << <<>> >>]
    ELSE m

\* the for loop over self.pareto.items(): broke = left by break, so the
\* else clause of the loop did not run
RECURSIVE ParetoScan_NoBreak(_, _, _, _)
ParetoScan_NoBreak(pareto, perf, k, remove_config) ==
    IF k > Len(pareto)
    THEN [broke |-> FALSE, remove_config |-> remove_config]
    ELSE IF AllLeq(perf, pareto[k][2]) /\ ~AllLeq(pareto[k][2], perf)
    THEN ParetoScan_NoBreak(pareto, perf, k + 1,
                            Append(remove_config, pareto[k][1]))
    ELSE ParetoScan_NoBreak(pareto, perf, k + 1, remove_config)

RECURSIVE ParetoScan_NoRemove(_, _, _, _)
ParetoScan_NoRemove(pareto, perf, k, remove_config) ==
    IF k > Len(pareto)
    THEN [broke |-> FALSE, remove_config |-> remove_config]
    ELSE IF AllLeq(pareto[k][2], perf)
    THEN [broke |-> TRUE, remove_config |-> remove_config]
    ELSE ParetoScan_NoRemove(pareto, perf, k + 1, remove_config)

RECURSIVE ParetoScan_FirstOnly(_, _, _, _)
ParetoScan_FirstOnly(pareto, perf, k, remove_config) ==
    IF k > Len(pareto)
    THEN [broke |-> FALSE, remove_config |-> remove_config]
    ELSE IF AllLeq(pareto[k][2], perf)
    THEN [broke |-> TRUE, remove_config |-> remove_config]
    ELSE IF AllLeq(perf, pareto[k][2]) /\ remove_config = <<>>
    THEN ParetoScan_FirstOnly(pareto, perf, k + 1,
                              Append(remove_config, pareto[k][1]))
    ELSE ParetoScan_FirstOnly(pareto, perf, k + 1, remove_config)

RECURSIVE ParetoScan_AnyBreak(_, _, _, _)
ParetoScan_AnyBreak(pareto, perf, k, remove_config) ==
    IF k > Len(pareto)
    THEN [broke |-> FALSE, remove_config |-> remove_config]
    ELSE IF \E i \in 1..Len(perf) : pareto[k][2][i] <= perf[i]
    THEN [broke |-> TRUE, remove_config |-> remove_config]
    ELSE IF AllLeq(perf, pareto[k][2])
    THEN ParetoScan_AnyBreak(pareto, perf, k + 1,
                             Append(remove_config, pareto[k][1]))
    ELSE ParetoScan_AnyBreak(pareto, perf, k + 1, remove_config)

RECURSIVE ParetoScan(_, _, _, _)
ParetoScan(pareto, perf, k, remove_config) ==
    IF k > Len(pareto)
    THEN [broke |-> FALSE, remove_config |-> remove_config]
    ELSE IF AllLeq(pareto[k][2], perf)
    THEN [broke |-> TRUE, remove_config |-> remove_config]
    ELSE IF AllLeq(perf, pareto[k][2])
    THEN ParetoScan(pareto, perf, k + 1, Append(remove_config, pareto[k][1]))
    ELSE ParetoScan(pareto, perf, k + 1, remove_config)

\* for conf in remove_config: self.pareto.pop(conf)
RECURSIVE PopAll(_, _)
PopAll(pareto, remove_config) ==
    IF remove_config = <<>> THEN pareto
    ELSE PopAll(Pop(pareto, Head(remove_config)), Tail(remove_config))

MO_update_pareto(pareto, config, perf) ==
    LET scan == ParetoScan(pareto, perf, 1, <<>>)
        p1 == IF scan.broke THEN pareto ELSE Append(pareto, <<config, perf>>)
    IN PopAll(p1, scan.remove_config)

\* for i in range(self.num_objs): the single-objective rule on the list
\* object that mo_incumbents[i] refers to
RECURSIVE MO_update_incumbents(_, _, _, _)
MO_update_incumbents(m, config, perf, i) ==
    IF i > m.num_objs THEN m
    ELSE LET id == m.mo_incumbents[i]
             lst == m.list_objs[id]
             entry == <<config, perf[i], perf>>
             m1 == IF Len(lst) > 0
                   THEN LET l1 == IF perf[i] < m.mo_incumbent_value[i]
                                  THEN <<>> ELSE lst
                        IN IF perf[i] <= m.mo_incumbent_value[i]
                           THEN [m EXCEPT !.list_objs[id] = Append(l1, entry),
                                          !.mo_incumbent_value[i] = perf[i]]
                           ELSE [m EXCEPT !.list_objs[id] = l1]
                   ELSE [m EXCEPT !.mo_incumbent_value[i] = perf[i],
                                  !.list_objs[id] = Append(lst, entry)]
         IN MO_update_incumbents(m1, config, perf, i + 1)

MO_get_pareto_front(m) == [k \in 1..Len(m.pareto) |-> m.pareto[k][2]]

\* Hypervolume(ref_point).compute(front): the volume dominated by the front
\* and bounded by ref_point.  All coordinates are integers, so the volume
\* is the number of unit cells [x, x+1) with some front point <= x < ref.
Hypervolume_compute(ref_point, front) ==
    Cardinality({x \in [1..Len(ref_point) -> 1..MAXINT] :
                   /\ \A i \in 1..Len(ref_point) : x[i] < ref_point[i]
                   /\ \E k \in 1..Len(front) :
                        \A i \in 1..Len(ref_point) : front[k][i] <= x[i]})

MO_update_hv(m) ==
    IF m.ref_point # RefPointNone
    THEN LET pareto_front == MO_get_pareto_front(m)
             hv == IF pareto_front # <<>>
                   THEN Hypervolume_compute(m.ref_point, pareto_front)
                   ELSE 0
         IN [m EXCEPT !.hv_data = Append(@, hv)]
    ELSE m

MOHistoryContainer_add_result(m, config, perf) ==
    IF MO_fix_num_objs(m, perf).num_objs # Len(perf) THEN "AssertionError"
    ELSE IF InData(m.data, config) THEN "warning"
    ELSE "ok"

MOHistoryContainer_add_NoDupCheck(m, config, perf) ==
    LET m0 == MO_fix_num_objs(m, perf)
    IN IF m0.num_objs # Len(perf) THEN m0
       ELSE IF InData(m0.data, config)
       THEN [m0 EXCEPT !.pareto =
                MO_update_pareto(Pop(@, config), config, perf)]
       ELSE LET m1 == [m0 EXCEPT !.data = Append(@, <<config, perf>>),
                                 !.config_counter = @ + 1]
                m2 == [m1 EXCEPT !.pareto = MO_update_pareto(@, config, perf)]
                m3 == MO_update_incumbents(m2, config, perf, 1)
            IN MO_update_hv(m3)

MOHistoryContainer_add(m, config, perf) ==
    LET m0 == MO_fix_num_objs(m, perf)
    IN IF m0.num_objs # Len(perf) THEN m0
       ELSE IF InData(m0.data, config) THEN m0
       ELSE LET m1 == [m0 EXCEPT !.data = Append(@, <<config, perf>>),
                                 !.config_counter = @ + 1]
                m2 == [m1 EXCEPT !.pareto = MO_update_pareto(@, config, perf)]
                m3 == MO_update_incumbents(m2, config, perf, 1)
            IN MO_update_hv(m3)

\* ---- MultiStartHistoryContainer ----
Inf == MAXINT + 2        \* float('inf'): above every performance

\* restart(): with num_objs # 1 the name ref_point is evaluated, which is
\* neither a local, a global nor a builtin: NameError before any assignment
MS_restart_Reset(s) ==
    IF s.num_objs = 1
    THEN [s EXCEPT !.current = 1,
                   !.history_containers = <<HistoryContainer_init>>]
    ELSE s

MS_restart(s) ==
    IF s.num_objs = 1
    THEN [s EXCEPT !.current = Len(s.history_containers) + 1,
                   !.history_containers = Append(@, HistoryContainer_init)]
    ELSE s

MS_restart_result(s) == IF s.num_objs = 1 THEN "ok" ELSE "NameError"

MS_init(num_objs) ==
    MS_restart([num_objs |-> num_objs, history_containers |-> <<>>,
                current |-> Unset])

MS_add_All(s, config, perf) ==
    [s EXCEPT !.history_containers =
                  [k \in 1..Len(@) |-> HistoryContainer_add(@[k], config, perf)]]

MS_add(s, config, perf) ==
    [s EXCEPT !.history_containers[s.current] =
                  HistoryContainer_add(@, config, perf)]

RECURSIVE MS_best_loop(_, _, _, _)
MS_best_loop(hcs, k, best_incumbents, best_incumbent_value) ==
    IF k > Len(hcs) THEN best_incumbents
    ELSE LET incumbents == hcs[k].incumbents
             incumbent_value == hcs[k].incumbent_value
         IN IF incumbent_value > best_incumbent_value
            THEN MS_best_loop(hcs, k + 1, best_incumbents,
                              best_incumbent_value)
            ELSE MS_best_loop(hcs, k + 1, best_incumbents \o incumbents,
                              IF incumbent_value < best_incumbent_value
                              THEN incumbent_value
                              ELSE best_incumbent_value)

\* the class body defines get_pareto_front twice; the later definition
\* (the current inner history's front) is the one the class keeps
MS_get_pareto_front(s) ==
    MO_get_pareto_front(s.history_containers[s.current])

\* get_perf: the loop finds the inner history that holds config and then
\* evaluates self.data, an attribute the class never assigns
MS_get_perf(s, config) ==
    IF \E k \in 1..Len(s.history_containers) :
          InData(s.history_containers[k].data, config)
    THEN [result |-> "AttributeError", returned |-> None]
    ELSE [result |-> "KeyError", returned |-> None]

MS_get_incumbents_for_all_restarts(s) ==
    IF s.num_objs = 1
    THEN MS_best_loop(s.history_containers, 1, <<>>, Inf)
    ELSE MS_get_pareto_front(s)

\* ---- the state machine ----
Absent == <<>>           \* no object of that class was constructed

InitHC ==
    /\ kind = "HistoryContainer"
    /\ hc = HistoryContainer_init
    /\ fresh = HistoryContainer_init
    /\ mo = Absent /\ ms = Absent
    /\ result = "ok" /\ returned = None /\ file = NoFile

InitMO ==
    /\ kind = "MOHistoryContainer"
    /\ \E ref_point \in {RefPointNone} \cup RefPoints :
          mo = MOHistoryContainer_init(ref_point)
    /\ hc = Absent /\ ms = Absent /\ fresh = Absent
    /\ result = "ok" /\ returned = None /\ file = NoFile

InitMS ==
    /\ kind = "MultiStartHistoryContainer"
    /\ \E num_objs \in ObjCounts :
          /\ ms = MS_init(num_objs)
          /\ result = MS_restart_result(ms)
    /\ hc = Absent /\ mo = Absent /\ fresh = Absent
    /\ returned = None /\ file = NoFile

Init == InitHC \/ InitMO \/ InitMS

\* Configurations are opaque keys that the code only tests for equality,
\* so the optimizer is taken to number them in order of first submission:
\* a call passes a configuration submitted before or the next new one.
Submittable(used) ==
    used \cup {c \in Configs \ used : \A d \in Configs \ used : c <= d}

HCAdd ==
    /\ kind = "HistoryContainer"
    /\ \E config \in Submittable(Keys(hc.data)), perf \in PerfVals :
          /\ hc' = HistoryContainer_add(hc, config, perf)
          /\ result' = HistoryContainer_add_result(hc, config)
    /\ returned' = None
    /\ UNCHANGED <<kind, mo, ms, file, fresh>>

HCSave ==
    /\ kind = "HistoryContainer"
    /\ file' = HistoryContainer_save_json(hc)
    /\ result' = "ok" /\ returned' = None
    /\ UNCHANGED <<kind, hc, mo, ms, fresh>>

\* the file is deleted or rewritten from outside the program
DamagedFiles ==
    {NoFile, Garbage, JsonFile(FALSE, <<>>),
     JsonFile(TRUE, << <<get_dictionary(1), JsonString>> >>)}

FileDamaged ==
    /\ kind = "HistoryContainer"
    /\ \E f \in DamagedFiles : file' = f
    /\ UNCHANGED <<kind, hc, mo, ms, fresh, result, returned>>

\* load_history_from_json called on a second, empty history
HCLoad ==
    /\ kind = "HistoryContainer"
    /\ LET out == HistoryContainer_load_history_from_json(fresh, file)
       IN /\ fresh' = out.self
          /\ result' = out.result
          /\ returned' = out.returned
    /\ UNCHANGED <<kind, hc, mo, ms, file>>

\* a reference point, when given, has one coordinate per objective
MOAdd ==
    /\ kind = "MOHistoryContainer"
    /\ \E config \in Submittable(Keys(mo.data)), perf \in Vectors :
          /\ (mo.num_objs = NumObjsNone /\ mo.ref_point # RefPointNone)
                => Len(perf) = Len(mo.ref_point)
          /\ mo' = MOHistoryContainer_add(mo, config, perf)
          /\ result' = MOHistoryContainer_add_result(mo, config, perf)
    /\ returned' = None
    /\ UNCHANGED <<kind, hc, ms, file, fresh>>

\* a constructor that raised returned no object to call
MSConstructed == kind = "MultiStartHistoryContainer" /\ ms.current # Unset

RECURSIVE SumCounters(_)
SumCounters(hcs) ==
    IF hcs = <<>> THEN 0
    ELSE Head(hcs).config_counter + SumCounters(Tail(hcs))

MSUsed == UNION {Keys(ms.history_containers[k].data) :
                     k \in 1..Len(ms.history_containers)}

MSAdd ==
    /\ MSConstructed
    /\ \E config \in Submittable(MSUsed), perf \in PerfVals :
          /\ \/ SumCounters(ms.history_containers) < MaxData
             \/ InData(ms.history_containers[ms.current].data, config)
          /\ ms' = MS_add(ms, config, perf)
          /\ result' = HistoryContainer_add_result(
                           ms.history_containers[ms.current], config)
    /\ returned' = None
    /\ UNCHANGED <<kind, hc, mo, file, fresh>>

MSRestart ==
    /\ MSConstructed
    /\ Len(ms.history_containers) <= MaxRestarts
    /\ ms' = MS_restart(ms)
    /\ result' = MS_restart_result(ms)
    /\ returned' = None
    /\ UNCHANGED <<kind, hc, mo, file, fresh>>

MSGetPerf ==
    /\ MSConstructed
    /\ \E config \in Configs :
          /\ result' = MS_get_perf(ms, config).result
          /\ returned' = MS_get_perf(ms, config).returned
    /\ UNCHANGED <<kind, hc, mo, ms, file, fresh>>

Next ==
    \/ HCAdd \/ HCSave \/ FileDamaged \/ HCLoad
    \/ MOAdd
    \/ MSAdd \/ MSRestart \/ MSGetPerf

Spec == Init /\ [][Next]_vars

\* ---- properties ----
IsHC == kind = "HistoryContainer"
IsMO == kind = "MOHistoryContainer"
IsMS == kind = "MultiStartHistoryContainer"

MinOf(S) == CHOOSE x \in S : \A y \in S : x <= y

Perfs(d) == {d[i][2] : i \in 1..Len(d)}

\* C1: in a single-objective history with at least one successful
\* insertion, incumbent_value is the minimum performance among the
\* inserted entries.
C1_IncumbentValueIsMin ==
    (IsHC /\ Len(hc.data) > 0) => hc.incumbent_value = MinOf(Perfs(hc.data))

\* a later insertion improved on the first one
C1_Witness ==
    /\ IsHC /\ Len(hc.data) >= 2
    /\ hc.incumbent_value < hc.data[1][2]
    /\ hc.incumbent_value = hc.data[Len(hc.data)][2]

\* C2: in a single-objective history the incumbents list holds exactly the
\* inserted (configuration, performance) pairs whose performance equals
\* incumbent_value, each once.
C2_IncumbentsAreTheTied ==
    IsHC => /\ Items(hc.incumbents) =
                 {e \in Items(hc.data) : e[2] = hc.incumbent_value}
            /\ Cardinality(Items(hc.incumbents)) = Len(hc.incumbents)

\* the first entry was beaten, then the new best was tied
C2_Witness ==
    /\ IsHC /\ Len(hc.data) = 3
    /\ Len(hc.incumbents) = 2
    /\ hc.data[1] \notin Items(hc.incumbents)

\* C3: in a multi-objective history the Pareto set is an antichain: no
\* entry's vector is component-wise <= the vector of another entry.
C3_ParetoAntichain ==
    IsMO => \A a, b \in 1..Len(mo.pareto) :
               a # b => ~AllLeq(mo.pareto[a][2], mo.pareto[b][2])

\* two incomparable members, after an earlier member was evicted
C3_Witness ==
    /\ IsMO /\ Len(mo.data) = 3 /\ Len(mo.pareto) = 2
    /\ mo.data[1] \notin Items(mo.pareto)

\* the step inserted one new (config, perf) entry into data
MOInserted == IsMO /\ Len(mo'.data) = Len(mo.data) + 1

MONew == mo'.data[Len(mo'.data)]

DominatedBy(pareto, perf) ==
    {e \in Items(pareto) : AllLeq(e[2], perf)}

DominatedOf(pareto, perf) ==
    {e \in Items(pareto) : AllLeq(perf, e[2])}

\* C4: an add that inserts a configuration whose vector is dominated by
\* some Pareto member leaves the Pareto set as it was.
C4_DominatedNewLeavesPareto ==
    [][(MOInserted /\ DominatedBy(mo.pareto, MONew[2]) # {})
          => mo'.pareto = mo.pareto]_vars

\* the last insertion was rejected by the second member in scan order,
\* the first member being incomparable with it
C4_Witness ==
    /\ IsMO /\ Len(mo.data) = 3 /\ Len(mo.pareto) = 2
    /\ mo.pareto = <<mo.data[1], mo.data[2]>>
    /\ AllLeq(mo.pareto[2][2], mo.data[3][2])
    /\ ~AllLeq(mo.pareto[1][2], mo.data[3][2])

C6_ReAddChangesNothing ==
    /\ IsHC => \A config \in Keys(hc.data), perf \in PerfVals :
                  /\ HistoryContainer_add(hc, config, perf) = hc
                  /\ HistoryContainer_add_result(hc, config) = "warning"
    /\ IsMO => \A config \in Keys(mo.data), perf \in Vectors :
                  Len(perf) = mo.num_objs =>
                     /\ MOHistoryContainer_add(mo, config, perf) = mo
                     /\ MOHistoryContainer_add_result(mo, config, perf)
                           = "warning"

\* a repeated configuration was just passed to a multi-objective history
\* that keeps a hypervolume trace
C6_Witness ==
    /\ IsMO /\ result = "warning"
    /\ Len(mo.data) >= 2 /\ Len(mo.hv_data) >= 2

\* C7: for every objective i, mo_incumbents[i] holds exactly the inserted
\* configurations whose i-th component is the minimum i-th component,
\* each with that component and its full vector.
C7_PerObjectiveIncumbents ==
    (IsMO /\ mo.num_objs >= 2) =>
       \A i \in 1..mo.num_objs :
          Items(mo.list_objs[mo.mo_incumbents[i]]) =
             {<<e[1], e[2][i], e[2]>> :
                 e \in {d \in Items(mo.data) :
                          \A o \in Items(mo.data) : d[2][i] <= o[2][i]}}

Range(f) == {f[i] : i \in 1..Len(f)}

MSLowest ==
    MinOf({ms.history_containers[k].incumbent_value :
              k \in 1..Len(ms.history_containers)})

\* C8: for num_objs = 1, get_incumbents_for_all_restarts returns exactly
\* the incumbents of the inner histories whose incumbent value is the
\* lowest incumbent value of all inner histories.  Stated for the states
\* in which every restart holds an insertion, so that every incumbent
\* value compared is an inserted performance and not the initial MAXINT.
C8_BestIncumbentsOverRestarts ==
    (/\ MSConstructed /\ ms.num_objs = 1
     /\ \A k \in 1..Len(ms.history_containers) :
           ms.history_containers[k].config_counter > 0) =>
       Items(MS_get_incumbents_for_all_restarts(ms)) =
          UNION {Items(ms.history_containers[k].incumbents) :
                    k \in {j \in 1..Len(ms.history_containers) :
                             ms.history_containers[j].incumbent_value
                                = MSLowest}}

NonDominated(S) == {v \in S : \A w \in S : w # v => ~AllLeq(w, v)}

\* C9: for num_objs > 1 the container exists and
\* get_incumbents_for_all_restarts is the non-dominated subset of the
\* union of every inner history's Pareto front.
C9_AggregateParetoFront ==
    (IsMS /\ ms.num_objs > 1) =>
       /\ MSConstructed
       /\ Range(MS_get_incumbents_for_all_restarts(ms)) =
             NonDominated(UNION {Range(MO_get_pareto_front(
                                          ms.history_containers[k])) :
                                    k \in 1..Len(ms.history_containers)})

\* C10: construction and restart() raise nothing, for num_objs = 1 and for
\* num_objs > 1 alike, and current is the last of history_containers.
C10_RestartCompletes ==
    IsMS => /\ result # "NameError"
            /\ Len(ms.history_containers) >= 1
            /\ ms.current = Len(ms.history_containers)

\* C11: add changes the current (last opened) inner history only: whatever
\* the configuration and performance passed, every earlier inner history,
\* the number of inner histories and current stay as they are, and a
\* configuration absent from the current history is inserted into it even
\* when an earlier restart holds it.
C11_AddTouchesCurrentOnly ==
    (MSConstructed /\ ms.num_objs = 1) =>
       \A config \in Configs, perf \in PerfVals :
          LET after == MS_add(ms, config, perf)
              cur == ms.history_containers[ms.current]
          IN /\ ms.current = Len(ms.history_containers)
             /\ after.current = ms.current
             /\ Len(after.history_containers) = Len(ms.history_containers)
             /\ \A k \in 1..Len(ms.history_containers) :
                   k # ms.current =>
                      after.history_containers[k] = ms.history_containers[k]
             /\ ~InData(cur.data, config) =>
                   after.history_containers[ms.current].data =
                      Append(cur.data, <<config, perf>>)

\* one configuration was inserted in the first restart and, with another
\* performance, in the second
C11_Witness ==
    /\ MSConstructed /\ Len(ms.history_containers) = 2
    /\ result = "ok"
    /\ ms.history_containers[1].data = <<<<1, MAXINT + 1>>>>
    /\ ms.history_containers[2].data = <<<<1, 1>>>>

\* C12: after save_json on a history and load_history_from_json of that
\* file on a fresh history, the fresh history holds the same
\* (configuration, performance) pairs as the saved one, and its
\* incumbent_value and incumbents agree with those pairs.
C12_SaveLoadRoundTrip ==
    (IsHC /\ returned # None /\ file = HistoryContainer_save_json(hc)) =>
       /\ Items(fresh.data) = Items(hc.data)
       /\ Len(fresh.data) > 0 =>
             fresh.incumbent_value = MinOf(Perfs(fresh.data))
       /\ Items(fresh.incumbents) =
             {e \in Items(fresh.data) : e[2] = fresh.incumbent_value}

\* C13: load_history_from_json on a missing or malformed file returns
\* normally (no exception reaches the caller) and leaves the history as
\* it was.
C13_LoadToleratesBadFile ==
    (IsHC /\ file \in DamagedFiles) =>
       /\ result \in {"ok", "warning"}
       /\ fresh = HistoryContainer_init

\* C14: num_objs is the length of the first vector added and no add
\* changes it afterwards; an add with a vector of another length raises
\* AssertionError and leaves the history as it was, for a new and for a
\* repeated configuration alike.
C14_NumObjsFixedByFirstAdd ==
    (IsMO /\ Len(mo.data) > 0) =>
       /\ mo.num_objs = Len(mo.data[1][2])
       /\ \A config \in Configs, perf \in Vectors :
             /\ MO_fix_num_objs(mo, perf).num_objs = mo.num_objs
             /\ Len(perf) # mo.num_objs =>
                   /\ MOHistoryContainer_add_result(mo, config, perf)
                         = "AssertionError"
                   /\ MOHistoryContainer_add(mo, config, perf) = mo

\* an add with a vector of the wrong length has just failed on a history
\* that holds two entries and a hypervolume trace
C14_Witness ==
    /\ IsMO /\ result = "AssertionError"
    /\ Len(mo.data) = 2 /\ Len(mo.hv_data) = 2

\* C15: incumbent_value of a single-objective history never increases:
\* after every add, successful or repeated, it is <= its value before the
\* call, the value set at construction included.
C15_IncumbentValueNeverIncreases ==
    [][IsHC => hc'.incumbent_value <= hc.incumbent_value]_vars

\* C16 as stated: no Pareto entry is dominated, under the component-wise <=
\* rule in which equal vectors dominate each other, by the vector of any
\* other configuration of the history.
C16_ParetoUndominated ==
    IsMO =>
       \A e \in Items(mo.pareto), d \in Items(mo.data) :
          d[1] # e[1] => ~AllLeq(d[2], e[2])

\* C16 amended: no Pareto entry is dominated by a different vector of the
\* history; a configuration whose vector equals a Pareto entry's vector may
\* sit in the history outside the Pareto set.
C16_ParetoStrictlyUndominated ==
    IsMO =>
       \A e \in Items(mo.pareto), d \in Items(mo.data) :
          AllLeq(d[2], e[2]) => d[2] = e[2]

\* a Pareto entry that evicted a worse configuration and then saw a
\* configuration with its own vector rejected
C16_Witness ==
    /\ IsMO /\ Len(mo.data) = 3 /\ Len(mo.pareto) = 1
    /\ \E d \in Items(mo.data) :
          d[1] # mo.pareto[1][1] /\ d[2] = mo.pareto[1][2]
    /\ \E d \in Items(mo.data) :
          d[2] # mo.pareto[1][2] /\ AllLeq(mo.pareto[1][2], d[2])
    /\ mo.data[2] = mo.pareto[1]

\* C17: Pareto membership is only ever lost: a configuration of the history
\* that is outside the Pareto set (rejected at its add or evicted later) is
\* outside it after every further add, a re-add of that configuration
\* included; the Pareto set holds configurations of the history only.
C17_ParetoMembershipOnlyLost ==
    [][IsMO =>
          /\ Keys(mo'.pareto) \subseteq Keys(mo'.data)
          /\ \A c \in Keys(mo.data) :
                c \notin Keys(mo.pareto) => c \notin Keys(mo'.pareto)]_vars

\* an evicted and a rejected configuration are both outside the Pareto set
\* right after one of the history's configurations was added again
C17_Witness ==
    /\ IsMO /\ result = "warning"
    /\ Len(mo.data) = 3 /\ Len(mo.pareto) = 1
    /\ mo.pareto[1] = mo.data[2]
    /\ mo.data[1][2] # mo.data[2][2]
    /\ mo.data[3][2] = mo.data[2][2]

\* C18: after every successful add and for every objective i,
\* mo_incumbent_value[i] is the minimum i-th component over the inserted
\* vectors, the first insertion included.
C18_PerObjectiveIncumbentValue ==
    (IsMO /\ Len(mo.data) > 0) =>
       \A i \in 1..mo.num_objs :
          mo.mo_incumbent_value[i] =
             MinOf({d[2][i] : d \in Items(mo.data)})

\* C19: MultiStartHistoryContainer.get_perf(config) returns a performance
\* stored for config when some inner history, current or earlier, holds
\* config, and fails with KeyError only when none of them does.
C19_GetPerfOverRestarts ==
    MSConstructed =>
       \A config \in Configs :
          LET out == MS_get_perf(ms, config)
              stored == {d[2] : d \in {e \in UNION {Items(
                                          ms.history_containers[k].data) :
                                          k \in 1..Len(ms.history_containers)} :
                                       e[1] = config}}
          IN IF config \in MSUsed
             THEN out.result = "ok" /\ \E v \in stored : out.returned = Returned(v)
             ELSE out.result = "KeyError"

\* C20: the Pareto set covers the history: every inserted configuration is
\* in the Pareto set or has a vector that some Pareto member dominates
\* (component-wise <=); so the Pareto set is non-empty whenever the history
\* is, and add never computes the hypervolume of an empty front.
C20_ParetoCoversHistory ==
    IsMO =>
       /\ \A d \in Items(mo.data) :
             \/ d \in Items(mo.pareto)
             \/ \E e \in Items(mo.pareto) : AllLeq(e[2], d[2])
       /\ Len(mo.data) > 0 => MO_get_pareto_front(mo) # <<>>
       /\ mo.ref_point # RefPointNone => Len(mo.hv_data) = Len(mo.data)

\* two incomparable Pareto members, a third configuration that one of them
\* dominates, and a hypervolume appended at each of the three adds
C20_Witness ==
    /\ IsMO /\ mo.num_objs = 2
    /\ Len(mo.data) = 3 /\ Len(mo.pareto) = 2 /\ Len(mo.hv_data) = 3
    /\ \E d \in Items(mo.data) :
          d \notin Items(mo.pareto) /\ AllLeq(mo.pareto[1][2], d[2])

====
